---- MODULE Spec2Model ----
(***************************************************************************)
(* Model of the usb2snes client (src/src/lib.rs): one Connection, the      *)
(* frames it writes to the websocket sink, the frames the peer has put on  *)
(* the websocket stream, and the position of the one call in progress.     *)
(* A call is cut at its await points that read the stream; everything      *)
(* between two reads is one step.                                          *)
(***************************************************************************)
EXTENDS Integers, Sequences, FiniteSets, TLC

\* ------------------------------------------------------------------ bounds
MaxCalls == 3        \* calls made on one connection
MaxNoise == 1        \* data frames the peer sends that answer no request
MaxPings == 1        \* control frames the peer sends
MaxLen == 3          \* length of the buffer handed to read_mem
MaxRes == 4          \* length of a Results sequence in a reply
MaxPath == 1         \* length of a path argument
MaxChunks == 1       \* put_file data spans at most this many full chunks
MaxTrim == 4         \* length of a path argument where only list_files is called
MaxOps == 2          \* length of the flags and of the operands of a Request

\* ------------------------------------------------------- program constants
ChunkSize == 1024    \* data.chunks(1024)

\* --------------------------------------------------------------- strings
\* A string is a sequence of one-character strings.
Chars == {"/", "a"}
Devices == {<<"d">>, <<"e">>}
ListStr == {<<"0">>, <<"1">>, <<"0", "0">>}
Addrs == {2093056}

RECURSIVE SeqsUpTo(_, _)
SeqsUpTo(S, n) ==
    IF n = 0 THEN {<<>>}
    ELSE LET shorter == SeqsUpTo(S, n - 1)
         IN  shorter \cup {Append(s, x) : s \in {t \in shorter : Len(t) = n - 1}, x \in S}

Paths == SeqsUpTo(Chars, MaxPath)
TrimPaths == SeqsUpTo(Chars, MaxTrim)
ListInputs == SeqsUpTo(ListStr, MaxRes)
\* What the peer answers: nothing, a directory "1", or a file "0".
ReplySeqs == {<<>>, << <<"0">>, <<"1">> >>, << <<"1">>, <<"0">> >>}
DataLens == {k * ChunkSize + d : k \in 0..MaxChunks, d \in {0, 1}}
RemotePath == <<"a", "/", "a">>

\* Addresses, buffer lengths and data lengths where only the requests of
\* read_mem and put_file are looked at: one and several hex digits, digits
\* above 9, powers of 16, and the largest number TLC computes with.
HexAddrs == {0, 9, 10, 15, 16, 255, 256, 4096, 43981, 2093056, 16777215, 2147483647}
HexLens == {0, 1, 10, 16, 255}
HexDataLens == {0, 1, 10, 1024, 4096}

\* Content of the data argument of put_file: position-dependent bytes.
PutData(n) == [i \in 1..n |-> (i - 1) % 251]

\* Content of the peer's memory from an address on: position-dependent bytes.
MemData(n) == [i \in 1..n |-> i]

Min(a, b) == IF a < b THEN a ELSE b

\* ------------------------------------------------------------ data model
NoneOpt == [some |-> FALSE]
SomeOpt(v) == [some |-> TRUE, v |-> v]

Request(opcode, flags, ops) == [opcode |-> opcode, space |-> "Snes", flags |-> flags, ops |-> ops]

SpaceName(space) == IF space = "Snes" THEN "SNES" ELSE space

\* enum Opcode, and every value of type Request with flags and operands of
\* up to MaxOps strings.
Opcodes == {"Attach", "DeviceList", "GetAddress", "Info", "List", "PutFile", "Remove"}
OptStrLists == {NoneOpt} \cup {SomeOpt(v) : v \in SeqsUpTo({<<"a">>}, MaxOps)}
Requests == {Request(o, f, v) : o \in Opcodes, f \in OptStrLists, v \in OptStrLists}

\* The derive without skip_serializing_if: every member written, an unset
\* one with nothing in it.
Serialize_Nulls(req) ==
    << [key |-> "Opcode", val |-> << <<req.opcode>> >>],
       [key |-> "Space", val |-> << <<SpaceName(req.space)>> >>],
       [key |-> "Flags", val |-> IF req.flags.some THEN req.flags.v ELSE <<>>],
       [key |-> "Operands", val |-> IF req.ops.some THEN req.ops.v ELSE <<>>] >>

\* serde_json::to_string(&Request): the object's members in field order,
\* a member with skip_serializing_if = Option::is_none left out when None.
Serialize(req) ==
    << [key |-> "Opcode", val |-> << <<req.opcode>> >>],
       [key |-> "Space", val |-> << <<SpaceName(req.space)>> >>] >>
    \o (IF req.flags.some THEN << [key |-> "Flags", val |-> req.flags.v] >> ELSE <<>>)
    \o (IF req.ops.some THEN << [key |-> "Operands", val |-> req.ops.v] >> ELSE <<>>)

\* format!("{:x}", n)
HexDigit_Lower(d) == <<"0", "1", "2", "3", "4", "5", "6", "7", "8", "9", "a", "b", "c", "d", "e", "f">>[d + 1]

\* format!("{:X}", n)
HexDigit(d) == <<"0", "1", "2", "3", "4", "5", "6", "7", "8", "9", "A", "B", "C", "D", "E", "F">>[d + 1]

RECURSIVE Hex(_)
Hex(n) == IF n < 16 THEN <<HexDigit(n)>> ELSE Append(Hex(n \div 16), HexDigit(n % 16))

\* Only the last '/' removed.
TrimEndSlash_Once(p) ==
    IF p # <<>> /\ p[Len(p)] = "/" THEN SubSeq(p, 1, Len(p) - 1) ELSE p

\* str::trim_end_matches('/')
RECURSIVE TrimEndSlash(_)
TrimEndSlash(p) ==
    IF p # <<>> /\ p[Len(p)] = "/" THEN TrimEndSlash(SubSeq(p, 1, Len(p) - 1)) ELSE p

\* ---------------------------------------------------------------- frames
\* A frame on the stream: its websocket kind, its content, and the call
\* whose request the peer answered with it (0: it answers no request).
\* Content is the UTF-8 text of a Results object ("json"), other UTF-8
\* text ("text"), or raw bytes ("bytes").
JsonBody(s) == [t |-> "json", results |-> s]
TextBody == [t |-> "text"]
BytesBody(b) == [t |-> "bytes", bytes |-> b]
Frame(kind, body, id) == [kind |-> kind, body |-> body, id |-> id]

TextFrame(json) == [kind |-> "Text", json |-> json]
BinaryFrame(data) == [kind |-> "Binary", data |-> data]
CloseFrame == [kind |-> "Close"]

is_text(msg) == msg.kind = "Text"
is_binary(msg) == msg.kind = "Binary"

\* Raw bytes are UTF-8 text when all of them are ASCII (the model has no
\* multi-byte sequence).
IsUtf8(bytes) == \A i \in 1..Len(bytes) : bytes[i] < 128

\* The frame's content is UTF-8 text.
HasText(msg) == msg.body.t \in {"json", "text"} \/ IsUtf8(msg.body.bytes)

\* Message's Display: the text of a frame whose content is UTF-8, else the
\* placeholder "Binary Data<length=n>"; only the text of a Results object
\* is told apart from other text.
to_string(msg) == IF HasText(msg) /\ msg.body.t = "json" THEN msg.body ELSE TextBody

\* serde_json::from_str::<Results>
from_str(text) ==
    IF text.t = "json" THEN [ok |-> TRUE, results |-> text.results] ELSE [ok |-> FALSE]

RECURSIVE SumLen(_)
SumLen(s) == IF s = <<>> THEN 0 ELSE Len(s[1]) + SumLen(SubSeq(s, 2, Len(s)))

\* Number of bytes of {"Results":["..",".."]}
JsonLen(s) == 14 + SumLen(s) + 2 * Len(s) + (IF Len(s) > 1 THEN Len(s) - 1 ELSE 0)

\* Message::into_data
into_data(msg) ==
    IF msg.body.t = "bytes" THEN msg.body.bytes
    ELSE IF msg.body.t = "json" THEN [i \in 1..JsonLen(msg.body.results) |-> 123]
    ELSE <<120>>

\* --------------------------------------------------------------- file list
FileInfo(ty, name) == [ty |-> ty, name |-> name]

\* The entries pushed in front instead of at the back.
RECURSIVE ListDecode_Reversed(_)
ListDecode_Reversed(s) ==
    IF s = <<>> THEN [panic |-> FALSE, files |-> <<>>]
    ELSE IF Len(s) = 1 THEN [panic |-> TRUE, files |-> <<>>]
    ELSE LET rest == ListDecode_Reversed(SubSeq(s, 3, Len(s)))
             fi == FileInfo(IF s[1] = <<"0">> THEN "Dir" ELSE "File", s[2])
         IN  [panic |-> rest.panic, files |-> rest.files \o <<fi>>]

\* The loop over recv()?.chunks(2) of list_files: a chunk of one element
\* makes strs[1] panic.
RECURSIVE ListDecode(_)
ListDecode(s) ==
    IF s = <<>> THEN [panic |-> FALSE, files |-> <<>>]
    ELSE IF Len(s) = 1 THEN [panic |-> TRUE, files |-> <<>>]
    ELSE LET rest == ListDecode(SubSeq(s, 3, Len(s)))
             fi == FileInfo(IF s[1] = <<"0">> THEN "Dir" ELSE "File", s[2])
         IN  [panic |-> rest.panic, files |-> <<fi>> \o rest.files]

\* The last, shorter chunk left out.
NumChunks_Floor(n) == n \div ChunkSize

\* data.chunks(1024): the i-th chunk (from 1) of a slice of n bytes.
NumChunks(n) == (n + ChunkSize - 1) \div ChunkSize
ChunkAt(data, i) == SubSeq(data, (i - 1) * ChunkSize + 1, Min(i * ChunkSize, Len(data)))

\* ------------------------------------------------------------------ state
VARIABLES
    pc,         \* "idle", "recv", "read_mem", "put_file", "closed", "aborted"
    op,         \* the call in progress, or the last one
    attached,   \* Connection.attached
    outbuf,     \* frames fed to the websocket sink and not yet flushed
    sent,       \* frames the current call has flushed to the peer, in order
    incoming,   \* frames on the websocket stream not yet read, in order
    eos,        \* the stream ends after the frames of incoming
    nread,      \* number of frames the current call has read from the stream
    got,        \* read_mem: the payloads of the binary frames read, in order
    sawEnd,     \* the current call has got None from the stream
    result,     \* what the call returned: [status, value]
    buf,        \* read_mem: the caller's buffer (data)
    offset,     \* read_mem: offset
    pdata,      \* put_file: data
    pidx,       \* put_file: chunks sent so far
    args,       \* the current call's req, if built, and its arguments path and addr
    calls,      \* number of calls started; the current call's number
    todo,       \* replies the peer still owes, oldest first
    noise,      \* data frames the peer has sent that answer no request
    pings,      \* control frames the peer has sent
    conform,    \* the peer has sent only protocol replies and pings
    tainted     \* some call has failed on the transport or the protocol

vars == <<pc, op, attached, outbuf, sent, incoming, eos, nread, got, sawEnd, result,
          buf, offset, pdata, pidx, args, calls, todo, noise, pings, conform,
          tainted>>

Failures == {"Transport", "Decode", "NoMessage", "Panic"}

\* The locals of a call that are not buffers: req (None before it is built),
\* and the arguments path and addr as the caller gave them.
Args(r, p, a) == [req |-> r, path |-> p, addr |-> a]
NoArgs == Args(NoneOpt, <<>>, 0)

NoResult == [status |-> "none", value |-> <<>>]
Res(status, value) == [status |-> status, value |-> value]

\* Connection::new
Init ==
    /\ pc = "idle"
    /\ op = "none"
    /\ attached = FALSE
    /\ outbuf = <<>>
    /\ sent = <<>>
    /\ incoming = <<>>
    /\ eos = FALSE
    /\ nread = 0
    /\ got = <<>>
    /\ sawEnd = FALSE
    /\ result = NoResult
    /\ buf = <<>>
    /\ offset = 0
    /\ pdata = <<>>
    /\ pidx = 0
    /\ args = NoArgs
    /\ calls = 0
    /\ todo = <<>>
    /\ noise = 0
    /\ pings = 0
    /\ conform = TRUE
    /\ tainted = FALSE

\* ----------------------------------------------------------- the sink side
\* SinkExt::feed and SinkExt::flush on a sink [buf, wire]; SinkExt::send is
\* feed followed by flush.
feed(ws, frame) == [buf |-> Append(ws.buf, frame), wire |-> ws.wire]
flush(ws) == [buf |-> <<>>, wire |-> ws.wire \o ws.buf]
sink_send(ws, frame) == flush(feed(ws, frame))

\* Connection::send: the request as one text frame.
send(ws, req) == sink_send(ws, TextFrame(Serialize(req)))

\* What the peer owes for a request: one Results frame for DeviceList,
\* Info and List, len bytes for GetAddress, nothing for the others.
Owed(req, id, len) ==
    IF req.opcode \in {"DeviceList", "Info", "List"}
    THEN << [id |-> id, kind |-> "results", opcode |-> req.opcode, n |-> 0, at |-> 0] >>
    ELSE IF req.opcode = "GetAddress" /\ len > 0
    THEN << [id |-> id, kind |-> "bytes", opcode |-> req.opcode, n |-> len, at |-> 0] >>
    ELSE <<>>

\* A call starts: only when no other call is in progress (&mut self).
Begin(name) ==
    /\ pc = "idle"
    /\ calls < MaxCalls
    /\ op' = name
    /\ calls' = calls + 1
    /\ nread' = 0 /\ got' = <<>>
    /\ sawEnd' = FALSE

\* The request written only on a session that is attached.
Sent_Gated(req, len) ==
    LET ws == IF attached THEN send([buf |-> outbuf, wire |-> <<>>], req)
              ELSE [buf |-> outbuf, wire |-> <<>>]
    IN  /\ outbuf' = ws.buf
        /\ sent' = ws.wire
        /\ todo' = IF eos \/ ~attached THEN todo ELSE todo \o Owed(req, calls + 1, len)

\* self.send(&req).await succeeded; a peer that has closed owes no reply.
Sent(req, len) ==
    LET ws == send([buf |-> outbuf, wire |-> <<>>], req)
    IN  /\ outbuf' = ws.buf
        /\ sent' = ws.wire
        /\ todo' = IF eos THEN todo ELSE todo \o Owed(req, calls + 1, len)

\* self.send(&req).await? failed: nothing was written.
NotSent ==
    /\ outbuf' = outbuf
    /\ sent' = <<>>
    /\ todo' = todo

Return(status, value) ==
    /\ pc' = "idle"
    /\ result' = Res(status, value)
    /\ tainted' = (tainted \/ status \in Failures)

\* A panic unwinds out of block_on and ends the process.
Abort ==
    /\ pc' = "aborted"
    /\ result' = Res("Panic", <<>>)
    /\ tainted' = TRUE

Await(where) ==
    /\ pc' = where
    /\ result' = NoResult
    /\ tainted' = tainted

\* The error of the send dropped: the call goes on to read its reply.
SendFailed_Ignored == Await("recv")

\* The ? on a send that failed: the call returns the error.
SendFailed == Return("Transport", <<>>)

\* The call waits for a reply before it returns.
NoReply_Recv == Await("recv")

\* Ok(()) of attach, rm and put_file: returned once the frames are written,
\* without a read of the stream.
NoReply == Return("Ok", <<>>)

NoLocals ==
    /\ buf' = <<>>
    /\ offset' = 0
    /\ pdata' = <<>>
    /\ pidx' = 0

\* ------------------------------------------------------------------ calls
DeviceListReq == Request("DeviceList", NoneOpt, NoneOpt)
AttachReq(device) == Request("Attach", NoneOpt, SomeOpt(<<device>>))
InfoReq == Request("Info", NoneOpt, NoneOpt)
ListReq(path) == Request("List", NoneOpt, SomeOpt(<<TrimEndSlash(path)>>))
PutFileReq(path, data) == Request("PutFile", NoneOpt, SomeOpt(<<path, Hex(Len(data))>>))
RemoveReq(path) == Request("Remove", NoneOpt, SomeOpt(<<path>>))
GetAddressReq(addr, len) == Request("GetAddress", NoneOpt, SomeOpt(<<Hex(addr), Hex(len)>>))

\* The call returns without reading the reply.
RecvThen_Skipped == Return("Ok", <<>>)

\* self.recv().await after the request: the call goes on in recv.
RecvThen == Await("recv")

get_device_list ==
    /\ Begin("get_device_list")
    /\ \E ok \in BOOLEAN :
         IF ok THEN Sent(DeviceListReq, 0) /\ RecvThen
         ELSE NotSent /\ SendFailed
    /\ args' = Args(SomeOpt(DeviceListReq), <<>>, 0)
    /\ NoLocals
    /\ UNCHANGED <<attached, incoming, eos, noise, pings, conform>>

\* attach that never sets the flag.
NewAttached_Never(att, ok) == att

\* attach that sets the flag before it sends.
NewAttached_Always(att, ok) == TRUE

\* attach that stores the outcome of the send in the flag.
NewAttached_Outcome(att, ok) == ok

\* The flag after attach: set once the send has succeeded, left alone when
\* the send's error is returned.
NewAttached(att, ok) == IF ok THEN TRUE ELSE att

attach ==
    /\ Begin("attach")
    /\ \E device \in Devices, ok \in BOOLEAN :
         /\ IF ok THEN Sent(AttachReq(device), 0) /\ NoReply
            ELSE NotSent /\ SendFailed
         /\ attached' = NewAttached(attached, ok)
         /\ args' = Args(SomeOpt(AttachReq(device)), <<>>, 0)
    /\ NoLocals
    /\ UNCHANGED <<incoming, eos, noise, pings, conform>>

\* get_info without its guard.
InfoAllowed_Always(att) == TRUE

\* The guard of get_info.
InfoAllowed(att) == att

get_info ==
    /\ Begin("get_info")
    /\ IF ~InfoAllowed(attached)
       THEN NotSent /\ Return("NotAttached", <<>>) /\ args' = NoArgs
       ELSE /\ \E ok \in BOOLEAN :
                 IF ok THEN Sent(InfoReq, 0) /\ RecvThen
                 ELSE NotSent /\ SendFailed
            /\ args' = Args(SomeOpt(InfoReq), <<>>, 0)
    /\ NoLocals
    /\ UNCHANGED <<attached, incoming, eos, noise, pings, conform>>

\* list_files with its path argument from the set P.
list_files_in(P) ==
    /\ Begin("list_files")
    /\ \E p \in P, ok \in BOOLEAN :
         /\ IF ok THEN Sent(ListReq(p), 0) /\ RecvThen
            ELSE NotSent /\ SendFailed
         /\ args' = Args(SomeOpt(ListReq(p)), p, 0)
    /\ NoLocals
    /\ UNCHANGED <<attached, incoming, eos, noise, pings, conform>>

list_files == list_files_in(Paths)

rm ==
    /\ Begin("rm")
    /\ \E ok \in BOOLEAN, flushed \in BOOLEAN :
         IF ok
         THEN /\ Sent(RemoveReq(RemotePath), 0)
              /\ IF flushed THEN NoReply ELSE Return("Transport", <<>>)
         ELSE NotSent /\ SendFailed
    /\ args' = Args(SomeOpt(RemoveReq(RemotePath)), RemotePath, 0)
    /\ NoLocals
    /\ UNCHANGED <<attached, incoming, eos, noise, pings, conform>>

close ==
    /\ pc = "idle"
    /\ op' = "close"
    /\ pc' = "closed"
    /\ \E ok \in BOOLEAN :
         IF ok
         THEN LET ws == sink_send([buf |-> outbuf, wire |-> <<>>], CloseFrame)
              IN  outbuf' = ws.buf /\ sent' = ws.wire /\ result' = Res("Ok", <<>>)
         ELSE outbuf' = outbuf /\ sent' = <<>> /\ result' = Res("Transport", <<>>)
    /\ nread' = 0 /\ got' = <<>>
    /\ sawEnd' = FALSE
    /\ args' = NoArgs
    /\ NoLocals
    /\ incoming' = <<>>
    /\ todo' = <<>>
    /\ UNCHANGED <<attached, eos, calls, noise, pings, conform, tainted>>

\* put_file up to the first chunk: the request, then the loop over
\* data.chunks(1024), which is left at once when there is no chunk; the
\* length of data is drawn from the set N.
put_file_in(N) ==
    /\ Begin("put_file")
    /\ \E n \in N, ok \in BOOLEAN :
         /\ IF ok
            THEN /\ Sent(PutFileReq(RemotePath, PutData(n)), 0)
                 /\ pdata' = PutData(n)
                 /\ IF NumChunks(n) = 0 THEN NoReply ELSE Await("put_file")
            ELSE NotSent /\ pdata' = <<>> /\ SendFailed
         /\ args' = Args(SomeOpt(PutFileReq(RemotePath, PutData(n))), RemotePath, 0)
    /\ pidx' = 0
    /\ buf' = <<>>
    /\ offset' = 0
    /\ UNCHANGED <<attached, incoming, eos, noise, pings, conform>>

put_file == put_file_in(DataLens)

\* One turn of the loop of put_file: send the chunk, then flush.
put_file_chunk ==
    /\ pc = "put_file"
    /\ \E ok \in BOOLEAN, flushed \in BOOLEAN :
         IF ok
         THEN LET ws == flush(sink_send([buf |-> outbuf, wire |-> sent],
                                        BinaryFrame(ChunkAt(pdata, pidx + 1))))
              IN  /\ outbuf' = ws.buf
                  /\ sent' = ws.wire
                  /\ pidx' = pidx + 1
                  /\ IF ~flushed THEN Return("Transport", <<>>)
                     ELSE IF pidx + 1 = NumChunks(Len(pdata)) THEN NoReply
                     ELSE Await("put_file")
         ELSE UNCHANGED <<outbuf, sent, pidx>> /\ SendFailed
    /\ UNCHANGED <<op, attached, incoming, eos, nread, got, sawEnd, buf, offset, pdata,
                   calls, todo, noise, pings, conform,
                   args>>

\* The loop entered once more when the buffer is full.
MoreToRead_Inclusive(off, len) == off <= len

\* while offset < len
MoreToRead(off, len) == off < len

\* read_mem up to the first read of the stream; with an empty buffer the
\* loop is not entered. addr is drawn from the set A, data.len() from L.
read_mem_in(A, L) ==
    /\ Begin("read_mem")
    /\ \E addr \in A, len \in L, ok \in BOOLEAN :
         /\ buf' = [i \in 1..len |-> 0]
         /\ args' = Args(SomeOpt(GetAddressReq(addr, len)), <<>>, addr)
         /\ IF ok
            THEN /\ Sent(GetAddressReq(addr, len), len)
                 /\ IF MoreToRead(0, len) THEN Await("read_mem") ELSE Return("Ok", <<>>)
            ELSE NotSent /\ SendFailed
    /\ offset' = 0
    /\ pdata' = <<>>
    /\ pidx' = 0
    /\ UNCHANGED <<attached, incoming, eos, noise, pings, conform>>

read_mem == read_mem_in(Addrs, 0..MaxLen)

\* An error item of the stream is a failure of the connection: what the peer
\* sent and was not read is lost, and the stream yields no further frame.
Broken ==
    /\ incoming' = <<>>
    /\ todo' = <<>>
    /\ eos' = TRUE

\* Every payload copied to the start of the buffer.
CopyAt_AtStart(data, off, msg_data) ==
    [i \in 1..Len(data) |-> IF i <= Len(msg_data) THEN msg_data[i] ELSE data[i]]

\* data[offset..offset + read_size].clone_from_slice(&msg_data)
CopyAt(data, off, msg_data) ==
    [i \in 1..Len(data) |->
        IF off < i /\ i <= off + Len(msg_data) THEN msg_data[i - off] ELSE data[i]]

\* The stream yields a frame to read_mem.
read_mem_next ==
    /\ pc = "read_mem"
    /\ incoming # <<>>
    /\ LET msg == Head(incoming)
           msg_data == into_data(msg)
           read_size == Len(msg_data)
       IN  /\ incoming' = Tail(incoming)
           /\ nread' = nread + 1
           /\ got' = IF is_binary(msg) THEN got \o msg_data ELSE got
           /\ IF is_binary(msg)
              THEN IF offset + read_size > Len(buf)
                   THEN Abort /\ UNCHANGED <<buf, offset>>
                   ELSE /\ buf' = CopyAt(buf, offset, msg_data)
                        /\ offset' = offset + read_size
                        /\ IF MoreToRead(offset + read_size, Len(buf)) THEN Await("read_mem")
                           ELSE Return("Ok", <<>>)
              ELSE Await("read_mem") /\ UNCHANGED <<buf, offset>>
    /\ UNCHANGED <<op, attached, outbuf, sent, eos, sawEnd, pdata, pidx, calls, todo,
                   noise, pings, conform,
                   args>>

\* The stream yields an error to read_mem.
read_mem_err ==
    /\ pc = "read_mem"
    /\ Broken
    /\ Return("Transport", <<>>)
    /\ UNCHANGED <<op, attached, outbuf, sent, nread, got, sawEnd, buf, offset,
                   pdata, pidx, calls, noise, pings, conform,
                   args>>

\* The stream has ended: the inner loop is left with offset < len, and the
\* outer loop starts it again.
read_mem_end ==
    /\ pc = "read_mem"
    /\ incoming = <<>>
    /\ eos
    /\ sawEnd' = TRUE
    /\ Await("read_mem")
    /\ UNCHANGED <<op, attached, outbuf, sent, incoming, eos, nread, got, buf, offset,
                   pdata, pidx, calls, todo, noise, pings, conform,
                   args>>

\* What the caller of recv does with Ok(results).
Deliver(results) ==
    IF op = "list_files"
    THEN LET d == ListDecode(results)
         IN  IF d.panic THEN Abort ELSE Return("Ok", d.files)
    ELSE Return("Ok", results)

\* recv that skips binary frames.
Decodes_TextOnly(msg) == is_text(msg)

\* True when recv tries to decode the frame.
Decodes(msg) == is_text(msg) \/ is_binary(msg)

\* The stream yields a frame to recv.
recv_next ==
    /\ pc = "recv"
    /\ incoming # <<>>
    /\ LET msg == Head(incoming)
           results == from_str(to_string(msg))
       IN  /\ incoming' = Tail(incoming)
           /\ nread' = nread + 1
           /\ got' = got
           /\ IF Decodes(msg)
              THEN IF results.ok THEN Deliver(results.results) ELSE Return("Decode", <<>>)
              ELSE Await("recv")
    /\ UNCHANGED <<op, attached, outbuf, sent, eos, sawEnd, buf, offset, pdata, pidx,
                   calls, todo, noise, pings, conform,
                   args>>

\* The stream yields an error to recv.
recv_err ==
    /\ pc = "recv"
    /\ Broken
    /\ Return("Transport", <<>>)
    /\ UNCHANGED <<op, attached, outbuf, sent, nread, got, sawEnd, buf, offset,
                   pdata, pidx, calls, noise, pings, conform,
                   args>>

\* recv that goes on waiting after the end of the stream.
recv_none_Again == Await("recv")

\* Err(format_err!("no message")) after the loop of recv.
recv_none == Return("NoMessage", <<>>)

\* The stream has ended: recv leaves its loop.
recv_end ==
    /\ pc = "recv"
    /\ incoming = <<>>
    /\ eos
    /\ sawEnd' = TRUE
    /\ recv_none
    /\ UNCHANGED <<op, attached, outbuf, sent, incoming, eos, nread, got, buf, offset,
                   pdata, pidx, calls, todo, noise, pings, conform,
                   args>>

\* ------------------------------------------------------------------- peer
\* The peer acts while the connection is open and the client has a call in
\* progress or may still make one.
Live == pc \notin {"closed", "aborted"} /\ ~eos /\ (pc # "idle" \/ calls < MaxCalls)

\* A frame that answers no request is put on the stream while a call is in
\* progress: one that arrives between two calls is read as if it had arrived
\* at the start of the next call that reads.
Busy == pc \in {"recv", "read_mem", "put_file"}

\* The peer answers the oldest request it has not answered: one Results
\* frame, or the next part of the bytes asked for.
peer_reply ==
    /\ Live
    /\ todo # <<>>
    /\ LET o == Head(todo)
       IN  IF o.kind = "results"
           THEN /\ \E s \in ReplySeqs :
                     incoming' = Append(incoming, Frame("Text", JsonBody(s), o.id))
                /\ todo' = Tail(todo)
           ELSE \E k \in 1..(o.n - o.at) :
                  /\ incoming' = Append(incoming,
                         Frame("Binary", BytesBody(SubSeq(MemData(o.n), o.at + 1, o.at + k)), o.id))
                  /\ todo' = IF o.at + k = o.n THEN Tail(todo)
                             ELSE <<[o EXCEPT !.at = o.at + k]>> \o Tail(todo)
    /\ UNCHANGED <<pc, op, attached, outbuf, sent, eos, nread, got, sawEnd, result, buf,
                   offset, pdata, pidx, calls, noise, pings, conform, tainted,
                   args>>

\* A websocket control frame.
peer_ping ==
    /\ Live
    /\ Busy
    /\ pings < MaxPings
    /\ pings' = pings + 1
    /\ incoming' = Append(incoming, Frame("Ping", BytesBody(<<>>), 0))
    /\ UNCHANGED <<pc, op, attached, outbuf, sent, eos, nread, got, sawEnd, result, buf,
                   offset, pdata, pidx, calls, todo, noise, conform, tainted,
                   args>>

\* A Results object as text and one as binary, text that is no Results
\* object, and binary frames of 0 bytes and of 2 bytes that are not UTF-8.
NoiseFrames ==
    { Frame("Text", JsonBody(<< <<"0">> >>), 0),
      Frame("Binary", JsonBody(<< <<"1">> >>), 0),
      Frame("Text", TextBody, 0),
      Frame("Binary", BytesBody(<<>>), 0),
      Frame("Binary", BytesBody(<<255, 254>>), 0) }

\* A data frame that answers no request.
peer_unsolicited ==
    /\ Live
    /\ Busy
    /\ noise < MaxNoise
    /\ noise' = noise + 1
    /\ \E f \in NoiseFrames : incoming' = Append(incoming, f)
    /\ conform' = FALSE
    /\ UNCHANGED <<pc, op, attached, outbuf, sent, eos, nread, got, sawEnd, result, buf,
                   offset, pdata, pidx, calls, todo, pings, tainted,
                   args>>

\* The peer closes the connection, and answers nothing more.
peer_close ==
    /\ Live
    /\ eos' = TRUE
    /\ todo' = <<>>
    /\ UNCHANGED <<pc, op, attached, outbuf, sent, incoming, nread, got, sawEnd, result, buf,
                   offset, pdata, pidx, calls, noise, pings, conform, tainted,
                   args>>

\* ---------------------------------------------------------- specification
Next ==
    \/ get_device_list
    \/ attach
    \/ get_info
    \/ list_files
    \/ rm
    \/ put_file
    \/ put_file_chunk
    \/ read_mem
    \/ read_mem_next
    \/ read_mem_err
    \/ read_mem_end
    \/ recv_next
    \/ recv_err
    \/ recv_end
    \/ close
    \/ peer_reply
    \/ peer_ping
    \/ peer_unsolicited
    \/ peer_close

Spec == Init /\ [][Next]_vars

\* list_files waiting in recv for the reply the peer has sent: every Results
\* sequence up to MaxRes strings.
ListInit ==
    /\ pc = "recv"
    /\ op = "list_files"
    /\ attached = FALSE
    /\ outbuf = <<>>
    /\ sent = <<TextFrame(Serialize(ListReq(<<>>)))>>
    /\ incoming \in {<<Frame("Text", JsonBody(s), 1)>> : s \in ListInputs}
    /\ eos = FALSE
    /\ nread = 0
    /\ got = <<>>
    /\ sawEnd = FALSE
    /\ result = NoResult
    /\ buf = <<>>
    /\ offset = 0
    /\ pdata = <<>>
    /\ pidx = 0
    /\ args = Args(SomeOpt(ListReq(<<>>)), <<>>, 0)
    /\ calls = 1
    /\ todo = <<>>
    /\ noise = 0
    /\ pings = 0
    /\ conform = TRUE
    /\ tainted = FALSE

ListNext == recv_next

ListSpec == ListInit /\ [][ListNext]_vars

\* Connection::send about to run on a Request: every value of Requests.
EncodeInit ==
    /\ pc = "send"
    /\ op = "send"
    /\ attached = FALSE
    /\ outbuf = <<>>
    /\ sent = <<>>
    /\ incoming = <<>>
    /\ eos = FALSE
    /\ nread = 0
    /\ got = <<>>
    /\ sawEnd = FALSE
    /\ result = NoResult
    /\ buf = <<>>
    /\ offset = 0
    /\ pdata = <<>>
    /\ pidx = 0
    /\ args \in {Args(SomeOpt(r), <<>>, 0) : r \in Requests}
    /\ calls = 0
    /\ todo = <<>>
    /\ noise = 0
    /\ pings = 0
    /\ conform = TRUE
    /\ tainted = FALSE

\* Connection::send(data) on its own: the request is written, or the error
\* of the sink is returned.
send_data ==
    /\ pc = "send"
    /\ \E ok \in BOOLEAN :
         IF ok THEN Sent(args.req.v, 0) /\ Return("Ok", <<>>)
         ELSE NotSent /\ SendFailed
    /\ UNCHANGED <<op, attached, incoming, eos, nread, got, sawEnd, buf, offset, pdata,
                   pidx, args, calls, noise, pings, conform>>

EncodeNext == send_data

EncodeSpec == EncodeInit /\ [][EncodeNext]_vars

\* Calls of read_mem and put_file only, up to their first await on the
\* stream or the end of their request.
HexNext == read_mem_in(HexAddrs, HexLens) \/ put_file_in(HexDataLens)

HexSpec == Init /\ [][HexNext]_vars

\* Calls of list_files only, on every path up to MaxTrim characters.
TrimNext == list_files_in(TrimPaths)

TrimSpec == Init /\ [][TrimNext]_vars

\* ----------------------------------------------------------------- claims
RecvOps == {"get_device_list", "get_info", "list_files"}
Starts(name) == op' = name /\ calls' = calls + 1
RecvReads == pc = "recv" /\ nread' = nread + 1

\* C1: get_info on a session on which no attach has succeeded returns the
\* not-attached error at once: it sends no frame, reads no frame, and
\* leaves the attachment flag as it was.
C1_NotAttachedBeforeIO ==
    [][(Starts("get_info") /\ ~attached) =>
         /\ pc' = "idle"
         /\ result'.status = "NotAttached"
         /\ sent' = <<>>
         /\ outbuf' = outbuf
         /\ todo' = todo
         /\ incoming' = incoming
         /\ nread' = 0
         /\ attached' = attached]_vars

C1_Witness ==
    op = "get_info" /\ result.status = "NotAttached" /\ incoming # <<>> /\ ~attached

RECURSIVE BinBytes(_)
BinBytes(q) ==
    IF q = <<>> THEN 0
    ELSE (IF is_binary(q[1]) THEN Len(into_data(q[1])) ELSE 0) + BinBytes(Tail(q))

OwedBytes == IF todo = <<>> THEN 0 ELSE todo[1].n - todo[1].at

\* C2: when the peer answers GetAddress with the bytes asked for, split into
\* binary frames in any way, read_mem does not fail on them, the bytes still
\* missing are always on their way, and when read_mem returns success the
\* buffer is the concatenation of the binary payloads in arrival order.
C2_ReadMemAnySplit ==
    op = "read_mem" =>
      /\ conform => result.status \in {"none", "Ok", "Transport"}
      /\ (conform /\ pc = "read_mem" /\ ~eos) =>
            offset + BinBytes(incoming) + OwedBytes = Len(buf)
      /\ result.status = "Ok" =>
            /\ pc = "idle"
            /\ buf = got
            /\ conform => buf = MemData(Len(buf))

C2_Witness ==
    /\ op = "read_mem"
    /\ result.status = "Ok"
    /\ conform
    /\ pings = 0
    /\ Len(buf) = 3
    /\ nread = 2

\* C3: once the stream has ended before read_mem has got all its bytes,
\* read_mem has returned an error to its caller.
C3_ReadMemEndsOnClose ==
    (op = "read_mem" /\ sawEnd) =>
        (pc = "idle" /\ result.status \notin {"none", "Ok"})

Outstanding == todo # <<>> \/ \E i \in 1..Len(incoming) : incoming[i].id # 0

\* C4: with a peer that sends only its replies and control frames, a call
\* sends its request only when no reply to an earlier request is owed or
\* unread, and the Results frame that get_device_list, get_info or
\* list_files returns from is the one the peer sent in reply to that call.
C4_OneOutstanding ==
    [][conform =>
         /\ (calls' = calls + 1 /\ sent' # <<>>) => ~Outstanding
         /\ (pc = "recv" /\ pc' = "idle" /\ result'.status = "Ok") =>
                Head(incoming).id = calls]_vars

C4_Witness ==
    /\ conform
    /\ calls >= 3
    /\ attached
    /\ op = "get_info"
    /\ result = Res("Ok", << <<"0">>, <<"1">> >>)

AttachJson(device) ==
    << [key |-> "Opcode", val |-> << <<"Attach">> >>],
       [key |-> "Space", val |-> << <<"SNES">> >>],
       [key |-> "Operands", val |-> <<device>>] >>

\* C5: an attach whose send succeeds has sent one Attach request with the
\* device as its only operand, has read nothing and has set the flag; the
\* flag stays set, and get_info on a session with the flag set does not
\* return the not-attached error.
C5_AttachThenInfo ==
    [][/\ (Starts("attach") /\ result'.status = "Ok") =>
            /\ \E device \in Devices : sent' = <<TextFrame(AttachJson(device))>>
            /\ attached'
            /\ incoming' = incoming
            /\ nread' = 0
       /\ attached => attached'
       /\ (Starts("get_info") /\ attached) => result'.status # "NotAttached"]_vars

C5_Witness ==
    op = "get_info" /\ attached /\ result.status = "Ok"

\* C6: a session starts not attached, and once the flag is set no step of
\* any call clears it.
C6_AttachedMonotonic ==
    /\ [](calls = 0 => ~attached)
    /\ [][attached => attached']_vars

C6_Witness ==
    attached /\ op = "attach" /\ result.status = "Transport" /\ calls >= 2

RECURSIVE ConcatData(_)
ConcatData(frames) ==
    IF frames = <<>> THEN <<>> ELSE frames[1].data \o ConcatData(Tail(frames))

CeilDiv1024(n) == IF n % 1024 = 0 THEN n \div 1024 ELSE n \div 1024 + 1

\* C7: put_file sends the PutFile request first and then binary frames of
\* at most 1024 bytes; nothing it has written stays unflushed; when it
\* returns success the binary frames are ceil(N/1024) in number and their
\* concatenation is the data.
C7_PutFileChunks ==
    op = "put_file" =>
      /\ outbuf = <<>>
      /\ sent # <<>> =>
            /\ sent[1].kind = "Text"
            /\ sent[1].json[1] = [key |-> "Opcode", val |-> << <<"PutFile">> >>]
            /\ \A i \in 2..Len(sent) :
                  sent[i].kind = "Binary" /\ Len(sent[i].data) <= 1024
            /\ Len(sent) = 1 + pidx
      /\ (pc = "idle" /\ result.status = "Ok") =>
            /\ Len(sent) = 1 + CeilDiv1024(Len(pdata))
            /\ ConcatData(Tail(sent)) = pdata

C7_Witness ==
    /\ op = "put_file"
    /\ pc = "idle"
    /\ result.status = "Ok"
    /\ Len(pdata) = 1025
    /\ Len(sent) = 3

\* C8: when the stream ends while recv is reading, whatever number of
\* frames it has skipped, the call returns the error "no message".
C8_NoMessage ==
    (op \in RecvOps /\ sawEnd) => (pc = "idle" /\ result.status = "NoMessage")

C8_Witness ==
    op \in RecvOps /\ sawEnd /\ nread >= 1 /\ result.status = "NoMessage"

\* The frames the claim says recv skips: neither text nor binary with text
\* content.
ClaimSkips(msg) == ~(is_text(msg) \/ (is_binary(msg) /\ HasText(msg)))

\* C9 as stated: recv goes on reading past every frame that is neither text
\* nor binary with text content.
C9_SkipsNonText ==
    [][(RecvReads /\ ClaimSkips(Head(incoming))) => pc' = "recv"]_vars

\* C9 amended: recv reads frames in arrival order, one at a time; it skips
\* a frame that is neither text nor binary and stops at the first text or
\* binary frame, returning its results when it decodes as Results and the
\* decoding error when it does not; the frames after it stay unread.
C9_StopsAtFirstData ==
    [][RecvReads =>
         LET msg == Head(incoming)
         IN  /\ incoming' = Tail(incoming)
             /\ IF msg.kind \notin {"Text", "Binary"}
                THEN pc' = "recv" /\ result' = NoResult
                ELSE IF msg.body.t = "json"
                THEN /\ pc' # "recv"
                     /\ op # "list_files" => result' = Res("Ok", msg.body.results)
                     /\ op = "list_files" => result'.status \in {"Ok", "Panic"}
                ELSE pc' = "idle" /\ result'.status = "Decode"]_vars

C9_Witness ==
    /\ op = "get_device_list"
    /\ result.status = "Ok"
    /\ nread >= 2
    /\ incoming # <<>>

\* C10: from a Results sequence s of even length list_files returns
\* Len(s)/2 entries in the order of s; entry i is a Dir exactly when the
\* marker s[2i-1] is "0", and its name is s[2i] (counting from 1).
C10_ListDecode ==
    [][(RecvReads /\ op = "list_files" /\ Decodes(Head(incoming))
          /\ Head(incoming).body.t = "json"
          /\ Len(Head(incoming).body.results) % 2 = 0) =>
         LET s == Head(incoming).body.results
             files == result'.value
         IN  /\ pc' = "idle"
             /\ result'.status = "Ok"
             /\ Len(files) = Len(s) \div 2
             /\ \A i \in 1..Len(files) :
                   /\ (files[i].ty = "Dir") <=> (s[2 * i - 1] = <<"0">>)
                   /\ files[i].ty \in {"Dir", "File"}
                   /\ files[i].name = s[2 * i]]_vars

C10_Witness ==
    /\ op = "list_files"
    /\ result.status = "Ok"
    /\ Len(result.value) = 2
    /\ result.value[1].ty = "File"
    /\ result.value[2].ty = "Dir"
    /\ result.value[1].name # result.value[2].name

\* C11: when the Results sequence list_files decodes has odd length, the
\* call returns an error to its caller: it does not abort, and it returns
\* no entries.
C11_OddRejected ==
    [][(RecvReads /\ op = "list_files" /\ Decodes(Head(incoming))
          /\ Head(incoming).body.t = "json"
          /\ Len(Head(incoming).body.results) % 2 = 1) =>
         /\ pc' = "idle"
         /\ result'.status \in Failures \ {"Panic"}
         /\ result'.value = <<>>]_vars

\* The Operands member of a request frame, which is its last member.
OperandsOf(frame) == frame.json[Len(frame.json)].val

\* C12: the operand of the List request list_files has transmitted is the
\* path argument without all of its trailing '/' (nothing else removed, and
\* nothing left when the path is made of '/' only), and normalizing the
\* operand again gives the operand.
C12_TrimmedOperand ==
    (op = "list_files" /\ sent # <<>>) =>
        LET o == OperandsOf(sent[1])[1]
            p == args.path
        IN  /\ Len(sent) = 1
            /\ sent[1].json[Len(sent[1].json)].key = "Operands"
            /\ Len(OperandsOf(sent[1])) = 1
            /\ o = <<>> \/ o[Len(o)] # "/"
            /\ Len(o) <= Len(p)
            /\ o = SubSeq(p, 1, Len(o))
            /\ \A i \in (Len(o) + 1)..Len(p) : p[i] = "/"
            /\ TrimEndSlash(o) = o

C12_Witness ==
    /\ op = "list_files"
    /\ sent # <<>>
    /\ args.path = <<"/", "/">>
    /\ OperandsOf(sent[1]) = << <<>> >>

KeyOrder == <<"Opcode", "Space", "Flags", "Operands">>
KeyRank(k) == CHOOSE i \in 1..Len(KeyOrder) : KeyOrder[i] = k
HasKey(json, k) == \E i \in 1..Len(json) : json[i].key = k
ValueOf(json, k) == json[CHOOSE i \in 1..Len(json) : json[i].key = k].val

\* C13: the text frame a request is sent as has its members in the order
\* Opcode, Space, Flags, Operands, each at most once; Opcode and Space are
\* always there, Flags is there exactly when flags is set and Operands
\* exactly when operands is set, each with the strings of the request.
C13_KeyOrder ==
    (sent # <<>> /\ is_text(sent[1]) /\ args.req.some) =>
        LET json == sent[1].json
            r == args.req.v
        IN  /\ \A i \in 1..Len(json) : \E n \in 1..Len(KeyOrder) : json[i].key = KeyOrder[n]
            /\ \A i, k \in 1..Len(json) :
                  i < k => KeyRank(json[i].key) < KeyRank(json[k].key)
            /\ HasKey(json, "Opcode") /\ ValueOf(json, "Opcode") = << <<r.opcode>> >>
            /\ HasKey(json, "Space") /\ ValueOf(json, "Space") = << <<"SNES">> >>
            /\ HasKey(json, "Flags") <=> r.flags.some
            /\ HasKey(json, "Operands") <=> r.ops.some
            /\ r.flags.some => ValueOf(json, "Flags") = r.flags.v
            /\ r.ops.some => ValueOf(json, "Operands") = r.ops.v

C13_Witness ==
    /\ op = "send"
    /\ sent # <<>>
    /\ args.req.v.opcode = "Info"
    /\ args.req.v.flags = SomeOpt(<< <<"a">> >>)
    /\ ~args.req.v.ops.some
    /\ Len(sent[1].json) = 3

UpperHexChars == <<"0", "1", "2", "3", "4", "5", "6", "7", "8", "9", "A", "B", "C", "D", "E", "F">>
HexVal(c) == (CHOOSE i \in 1..16 : UpperHexChars[i] = c) - 1

\* The number a string of uppercase hex digits stands for in base 16.
RECURSIVE FromHex(_)
FromHex(s) ==
    IF s = <<>> THEN 0
    ELSE FromHex(SubSeq(s, 1, Len(s) - 1)) * 16 + HexVal(s[Len(s)])

\* Uppercase hex digits only (so no 0x prefix), at least one, and no
\* leading zero in front of another digit.
IsUpperHex(s) ==
    /\ Len(s) >= 1
    /\ \A i \in 1..Len(s) : \E n \in 1..16 : s[i] = UpperHexChars[n]
    /\ Len(s) > 1 => s[1] # "0"

\* C14: the request put_file has sent has the operands [path, h] where h
\* is the length of the data in uppercase hex without prefix or padding
\* ("1000" for 4096 bytes), and the request read_mem has sent has the
\* operands [hex of addr, hex of the buffer's length]; read in base 16 each
\* string is the number it was made from.
C14_HexOperands ==
    /\ (op = "put_file" /\ sent # <<>>) =>
          LET ops == OperandsOf(sent[1])
          IN  /\ Len(ops) = 2
              /\ ops[1] = args.path
              /\ IsUpperHex(ops[2])
              /\ FromHex(ops[2]) = Len(pdata)
              /\ Len(pdata) = 4096 => ops[2] = <<"1", "0", "0", "0">>
    /\ (op = "read_mem" /\ sent # <<>>) =>
          LET ops == OperandsOf(sent[1])
          IN  /\ Len(ops) = 2
              /\ IsUpperHex(ops[1]) /\ FromHex(ops[1]) = args.addr
              /\ IsUpperHex(ops[2]) /\ FromHex(ops[2]) = Len(buf)

C14_Witness ==
    /\ op = "put_file"
    /\ sent # <<>>
    /\ Len(pdata) = 4096
    /\ OperandsOf(sent[1])[2] = <<"1", "0", "0", "0">>

\* The start of a call that has written nothing to the peer.
NothingSent == calls' = calls + 1 /\ sent' = <<>>

\* The stream yields an error to a call that is reading: the unread frames
\* are gone and none was read.
ReadFails ==
    pc \in {"recv", "read_mem"} /\ incoming # <<>> /\ incoming' = <<>> /\ nread' = nread

\* C15: a call sends at most one request frame, as its first frame; a call
\* whose request could not be sent returns at once with the error, having
\* read nothing; a call to which the stream yields an error returns at once
\* with the error, having sent and read nothing more; an error is the
\* result of a call only when the call has returned; and the binary frames
\* put_file has sent, also when it fails, are the first chunks of its data.
C15_NoRetry ==
    [][/\ \A i \in 2..Len(sent') : ~is_text(sent'[i])
       /\ NothingSent =>
             /\ pc' = "idle"
             /\ result'.status \in {"Transport", "NotAttached"}
             /\ nread' = 0
             /\ incoming' = incoming
       /\ ReadFails =>
             /\ pc' = "idle"
             /\ result'.status = "Transport"
             /\ sent' = sent
       /\ (result'.status = "Transport" /\ op' # "close") =>
             /\ pc' = "idle"
             /\ nread' = nread \/ nread' = 0
       /\ op' = "put_file" =>
             /\ Len(sent') <= 1 + CeilDiv1024(Len(pdata'))
             /\ \A i \in 1..(Len(sent') - 1) :
                   sent'[i + 1] = BinaryFrame(SubSeq(pdata', 1024 * (i - 1) + 1,
                                                    Min(1024 * i, Len(pdata'))))]_vars

C15_Witness ==
    /\ op = "put_file"
    /\ pc = "idle"
    /\ result.status = "Transport"
    /\ Len(pdata) = 1025
    /\ Len(sent) = 2
    /\ pidx = 1

NoReplyOps == {"attach", "rm", "put_file"}

\* A step taken by the call in progress, or the start of a call.
CallStep == calls' # calls \/ pc' # pc \/ pidx' # pidx \/ nread' # nread

\* C16: no step of attach, rm or put_file takes a frame from the stream or
\* changes the frames waiting on it; a frame is taken from the stream only
\* by a step of get_device_list, get_info, list_files or read_mem, so what
\* arrives during attach, rm or put_file is still unread when they return.
C16_NoResponseRead ==
    [][/\ (CallStep /\ op' \in NoReplyOps) =>
             /\ incoming' = incoming
             /\ nread' = 0
             /\ pc' \notin {"recv", "read_mem"}
       /\ nread' = nread + 1 =>
             /\ op \in RecvOps \cup {"read_mem"}
             /\ incoming # <<>> /\ incoming' = Tail(incoming)]_vars

C16_Witness ==
    /\ op = "put_file"
    /\ pc = "idle"
    /\ result.status = "Ok"
    /\ Len(sent) = 3
    /\ incoming # <<>>
    /\ nread = 0

\* C17: read_mem reads a frame only while fewer bytes than the buffer's
\* length have been written; the binary frame that brings the bytes
\* written to the length ends the call with success, the frames behind it
\* unread; a binary frame that leaves bytes missing advances the offset by
\* its size and the call reads on; a frame that is not binary is taken
\* from the stream and changes neither buffer nor offset; with a buffer of
\* length 0 the call reads nothing.
C17_StopsAtLength ==
    [][/\ (op = "read_mem" /\ nread' = nread + 1) =>
             LET msg == Head(incoming)
                 size == Len(into_data(msg))
             IN  /\ pc = "read_mem"
                 /\ offset < Len(buf)
                 /\ incoming' = Tail(incoming)
                 /\ ~is_binary(msg) =>
                       buf' = buf /\ offset' = offset /\ pc' = "read_mem"
                 /\ (is_binary(msg) /\ offset + size < Len(buf)) =>
                       offset' = offset + size /\ pc' = "read_mem"
                 /\ (is_binary(msg) /\ offset + size = Len(buf)) =>
                       offset' = Len(buf) /\ pc' = "idle" /\ result'.status = "Ok"
       /\ (op' = "read_mem" /\ result'.status = "Ok") => offset' = Len(buf')
       /\ (op' = "read_mem" /\ pc' = "read_mem") => offset' < Len(buf')
       /\ (Starts("read_mem") /\ Len(buf') = 0) =>
             pc' = "idle" /\ nread' = 0 /\ incoming' = incoming]_vars

C17_Witness ==
    /\ op = "read_mem"
    /\ result.status = "Ok"
    /\ Len(buf) = 2
    /\ nread = 3
    /\ pings = 1
    /\ incoming # <<>>
    /\ incoming[1].kind # "Ping"

Ungated == {"get_device_list", "list_files", "put_file", "rm", "read_mem"}

\* C18: get_device_list, list_files, put_file, rm and read_mem never return
\* the not-attached error and leave the flag alone; when one of them has
\* written nothing it is because the send failed; the not-attached error is
\* returned by get_info only, on a session that is not attached; and on a
\* session that is not attached each of the five can send its request.
C18_OnlyInfoGated ==
    /\ [][/\ (calls' = calls + 1 /\ op' \in Ungated) =>
                 /\ result'.status # "NotAttached"
                 /\ attached' = attached
                 /\ sent' = <<>> => (pc' = "idle" /\ result'.status = "Transport")
          /\ result'.status = "NotAttached" => (op' = "get_info" /\ ~attached')]_vars
    /\ []((pc = "idle" /\ calls < MaxCalls /\ ~attached) =>
             /\ ENABLED (get_device_list /\ sent' # <<>>)
             /\ ENABLED (list_files /\ sent' # <<>>)
             /\ ENABLED (put_file /\ sent' # <<>>)
             /\ ENABLED (rm /\ sent' # <<>>)
             /\ ENABLED (read_mem /\ sent' # <<>>))

C18_Witness ==
    /\ ~attached
    /\ calls = 3
    /\ op = "read_mem"
    /\ result.status = "Ok"
    /\ Len(buf) = 2
    /\ ~tainted

\* C19: while read_mem runs its offset stays within the buffer and no
\* binary frame, whatever its size, aborts the call: once read_mem is over
\* it has returned success or an error.
C19_NoOverrun ==
    op = "read_mem" =>
        /\ offset <= Len(buf)
        /\ pc # "aborted"
        /\ result.status # "Panic"

\* C20: an attach whose request could not be sent returns the error of the
\* send with the flag as it was before the call, whether set or not, and a
\* get_info that follows it on a session that is not attached returns the
\* not-attached error.
C20_FailedAttachKeepsFlag ==
    [][/\ (Starts("attach") /\ sent' = <<>>) =>
             /\ pc' = "idle"
             /\ result'.status = "Transport"
             /\ attached' = attached
       /\ (Starts("attach") /\ result'.status # "Ok") => attached' = attached
       /\ (Starts("get_info") /\ op = "attach" /\ result.status = "Transport" /\ ~attached) =>
             result'.status = "NotAttached" /\ sent' = <<>>]_vars

C20_Witness ==
    /\ op = "attach"
    /\ pc = "idle"
    /\ result.status = "Transport"
    /\ sent = <<>>
    /\ ~attached
    /\ calls = 2

====
